---- MODULE Spec2Model ----
(***************************************************************************)
(* A model of ppb_vector.Vector2 (src/ppb_vector/vector2.py).              *)
(*                                                                         *)
(* State: the heap of live vector instances (identity = position in the    *)
(* heap), the last call made on the class (op) and what it produced (res). *)
(* Every method of Vector2 is an operator computing an outcome from the    *)
(* heap and its arguments; one action per public operation applies it and  *)
(* allocates the instance it returns, when that instance is a new one.     *)
(*                                                                         *)
(* A Python float is modelled as a fixed-point number: the integer n       *)
(* stands for n / Scale, and multiplication, division and hypot round to   *)
(* the nearest representable number.  Inputs are finite numbers, as the    *)
(* generator vectors() of src/tests/utils.py draws them.                   *)
(*                                                                         *)
(* Three specifications share the state and the actions: Spec builds       *)
(* vectors from every form the constructor takes and copies them; SpecOps  *)
(* applies every public operation to vectors of every type; SpecCompass    *)
(* turns and measures vectors of every direction along an axis or a        *)
(* diagonal.                                                               *)
(***************************************************************************)
EXTENDS Integers, Sequences, FiniteSets, TLC

VARIABLES heap, op, res

vars == <<heap, op, res>>

\* ---- bounds ----------------------------------------------------------

\* Largest number of live instances.
MaxHeap == 2

\* Number of representable floats per unit.
Scale == 2

\* ---- Python values ---------------------------------------------------

\* Every Python value is a record of one shape:
\*   k      "int" | "float" | "str" | "None" | "tuple" | "list" | "dict" | "ref"
\*   n      the number (an int, the units of a float, the number a str spells)
\*   num    for a str: whether it spells a number
\*   id     for a ref: the instance
\*   keys   for a dict: its keys, in step with items; for a str that is a
\*          name: the name
\*   items  the elements of a tuple, list or dict
PyInt(i) == [k |-> "int", n |-> i, num |-> TRUE, id |-> 0, keys |-> <<>>, items |-> <<>>]

PyFloat(u) == [k |-> "float", n |-> u, num |-> TRUE, id |-> 0, keys |-> <<>>, items |-> <<>>]

PyNumStr(i) == [k |-> "str", n |-> i, num |-> TRUE, id |-> 0, keys |-> <<>>, items |-> <<>>]

PyBadStr == [k |-> "str", n |-> 0, num |-> FALSE, id |-> 0, keys |-> <<>>, items |-> <<>>]

\* A str that is the name s.
PyStr(s) == [k |-> "str", n |-> 0, num |-> FALSE, id |-> 0, keys |-> <<s>>, items |-> <<>>]

PyNone == [k |-> "None", n |-> 0, num |-> FALSE, id |-> 0, keys |-> <<>>, items |-> <<>>]

PyTuple(s) == [k |-> "tuple", n |-> 0, num |-> FALSE, id |-> 0, keys |-> <<>>, items |-> s]

PyList(s) == [k |-> "list", n |-> 0, num |-> FALSE, id |-> 0, keys |-> <<>>, items |-> s]

PyDict(ks, s) == [k |-> "dict", n |-> 0, num |-> FALSE, id |-> 0, keys |-> ks, items |-> s]

PyRef(i) == [k |-> "ref", n |-> 0, num |-> FALSE, id |-> i, keys |-> <<>>, items |-> <<>>]

\* ---- outcomes of a call ----------------------------------------------

\* k = "vec": a vector instance; id = 0 while it is not on the heap yet,
\* new tells whether the call allocated it.
Vec(i, t, a, b, fresh) ==
    [k |-> "vec", id |-> i, type |-> t, x |-> a, y |-> b, new |-> fresh, exc |-> "", n |-> 0]

Raise(e) ==
    [k |-> "raise", id |-> 0, type |-> "", x |-> 0, y |-> 0, new |-> FALSE, exc |-> e, n |-> 0]

NotImplemented ==
    [k |-> "NotImplemented", id |-> 0, type |-> "", x |-> 0, y |-> 0, new |-> FALSE, exc |-> "", n |-> 0]

FloatResult(u) ==
    [k |-> "float", id |-> 0, type |-> "", x |-> 0, y |-> 0, new |-> FALSE, exc |-> "", n |-> u]

BoolResult(b) ==
    [k |-> "bool", id |-> 0, type |-> "", x |-> 0, y |-> 0, new |-> FALSE, exc |-> "",
     n |-> IF b THEN 1 ELSE 0]

\* k = "pair": a tuple of two floats, x and y its elements.
PairResult(a, b) ==
    [k |-> "pair", id |-> 0, type |-> "", x |-> a, y |-> b, new |-> FALSE, exc |-> "", n |-> 0]

NoResult ==
    [k |-> "none", id |-> 0, type |-> "", x |-> 0, y |-> 0, new |-> FALSE, exc |-> "", n |-> 0]

\* The instance i of heap h, as the outcome that returns it.
Deref(h, i) == Vec(i, h[i].type, h[i].x, h[i].y, FALSE)

\* ---- the class hierarchy ---------------------------------------------

\* Vector2 and three subclasses: V1 and V2 derive from Vector2, V11 from V1.
VectorTypes == {"Vector2", "V1", "V2", "V11"}

\* type.__mro__
Mro(t) ==
    CASE t = "Vector2" -> <<"Vector2", "object">>
      [] t = "V1" -> <<"V1", "Vector2", "object">>
      [] t = "V2" -> <<"V2", "Vector2", "object">>
      [] t = "V11" -> <<"V11", "V1", "Vector2", "object">>
      [] OTHER -> <<t, "object">>

Range(s) == {s[i] : i \in DOMAIN s}

IsSubclass(t, u) == u \in Range(Mro(t))

\* type(value)
TypeOf(h, v) ==
    CASE v.k = "ref" -> h[v.id].type
      [] v.k = "None" -> "NoneType"
      [] OTHER -> v.k

\* isinstance(value, cls)
IsInstance(h, v, cls) == IsSubclass(TypeOf(h, v), cls)

\* isinstance(value, Sequence): Vector2 is registered as one (line 453).
IsSequence(h, v) == v.k \in {"tuple", "list", "str"} \/ IsInstance(h, v, "Vector2")

\* len(value) of a sized value; a str here is one character long.
PyLen(v) ==
    CASE v.k = "str" -> 1
      [] v.k = "ref" -> 2
      [] OTHER -> Len(v.items)

HasKey(v, key) == \E i \in DOMAIN v.keys : v.keys[i] = key

GetKey(v, key) == v.items[CHOOSE i \in DOMAIN v.keys : v.keys[i] = key]

\* ---- floats ------------------------------------------------------------

\* n / d rounded to the nearest integer (halves upwards), d # 0.
RoundDiv(n, d) ==
    IF d > 0 THEN (2 * n + d) \div (2 * d)
    ELSE (2 * (0 - n) + (0 - d)) \div (2 * (0 - d))

\* The integer square root of n >= 0.
ISqrt(n) == CHOOSE r \in 0..n : r * r <= n /\ (r + 1) * (r + 1) > n

\* sqrt(n) rounded to the nearest integer.
RoundSqrt(n) == (ISqrt(4 * n) + 1) \div 2

FMul(a, b) == RoundDiv(a * b, Scale)

FDivide(a, b) == RoundDiv(a * Scale, b)

\* math.hypot
Hypot(a, b) == RoundSqrt(a * a + b * b)

\* float(value): the float, or the error float() raises.
Float(v) ==
    CASE v.k = "int" -> FloatResult(v.n * Scale)
      [] v.k = "float" -> FloatResult(v.n)
      [] v.k = "str" -> IF v.num THEN FloatResult(v.n * Scale) ELSE Raise("ValueError")
      [] OTHER -> Raise("TypeError")

\* ---- construction ----------------------------------------------------

\* Vector2.__init__, from the two coordinate values on: float(x), float(y).
SetCoordinates(cls, x, y) ==
    LET fx == Float(x)
        fy == Float(y)
    IN  IF fx.k = "raise" THEN Raise("TypeError")
        ELSE IF fy.k = "raise" THEN Raise("TypeError")
        ELSE Vec(0, cls, fx.n, fy.n, TRUE)

\* convert without its first branch: an instance of cls is copied too.
convert_copies(h, cls, value) ==
    IF IsInstance(h, value, "Vector2")
    THEN SetCoordinates(cls, PyFloat(h[value.id].x), PyFloat(h[value.id].y))
    ELSE IF IsSequence(h, value) /\ PyLen(value) = 2
    THEN SetCoordinates(cls, value.items[1], value.items[2])
    ELSE IF value.k = "dict" /\ HasKey(value, "x") /\ HasKey(value, "y") /\ PyLen(value) = 2
    THEN SetCoordinates(cls, GetKey(value, "x"), GetKey(value, "y"))
    ELSE Raise("ValueError")

\* convert building a Vector2 where it should build a cls.
convert_to_base(h, cls, value) ==
    IF IsInstance(h, value, cls) THEN Deref(h, value.id)
    ELSE IF IsInstance(h, value, "Vector2")
    THEN SetCoordinates("Vector2", PyFloat(h[value.id].x), PyFloat(h[value.id].y))
    ELSE IF IsSequence(h, value) /\ PyLen(value) = 2
    THEN SetCoordinates("Vector2", value.items[1], value.items[2])
    ELSE IF value.k = "dict" /\ HasKey(value, "x") /\ HasKey(value, "y") /\ PyLen(value) = 2
    THEN SetCoordinates("Vector2", GetKey(value, "x"), GetKey(value, "y"))
    ELSE Raise("ValueError")

\* Vector2.convert
convert(h, cls, value) ==
    IF IsInstance(h, value, cls) THEN Deref(h, value.id)
    ELSE IF IsInstance(h, value, "Vector2")
    THEN SetCoordinates(cls, PyFloat(h[value.id].x), PyFloat(h[value.id].y))
    ELSE IF IsSequence(h, value) /\ PyLen(value) = 2
    THEN SetCoordinates(cls, value.items[1], value.items[2])
    ELSE IF value.k = "dict" /\ HasKey(value, "x") /\ HasKey(value, "y") /\ PyLen(value) = 2
    THEN SetCoordinates(cls, GetKey(value, "x"), GetKey(value, "y"))
    ELSE Raise("ValueError")

\* cls(*pos, **kw): Vector2.__init__ on a new instance of cls.
\* kwk and kwv are the keyword names and values, in step.
construct(h, cls, pos, kwk, kwv) ==
    LET kw == PyDict(kwk, kwv)
    IN  IF Len(pos) > 0 /\ Len(kwk) > 0 THEN Raise("TypeError")
        ELSE IF (Len(pos) = 0 /\ Len(kwk) = 0) \/ Len(pos) > 2 THEN Raise("TypeError")
        ELSE IF Len(kwk) > 0 /\ Range(kwk) # {"x", "y"}
        THEN Raise("AttributeError")  \* dict_keys has no join(): the message fails
        ELSE IF Len(kwk) > 0
        THEN SetCoordinates(cls, GetKey(kw, "x"), GetKey(kw, "y"))
        ELSE IF Len(pos) = 1
        THEN LET c == convert(h, "Vector2", pos[1])
             IN  IF c.k = "raise" THEN c
                 ELSE SetCoordinates(cls, PyFloat(c.x), PyFloat(c.y))
        ELSE SetCoordinates(cls, pos[1], pos[2])

\* ---- result-type resolution ------------------------------------------

\* _find_lowest_type with its comparisons the wrong way round.
_find_lowest_type_reversed(left, right) ==
    LET lmro == Range(Mro(left))
        rmro == Range(Mro(right))
    IN  IF Cardinality(lmro) < Cardinality(rmro) THEN left
        ELSE IF Cardinality(rmro) < Cardinality(lmro) THEN right
        ELSE left

\* _find_lowest_type: the type with the larger set of MRO classes, left at a tie.
_find_lowest_type(left, right) ==
    LET lmro == Range(Mro(left))
        rmro == Range(Mro(right))
    IN  IF Cardinality(lmro) > Cardinality(rmro) THEN left
        ELSE IF Cardinality(rmro) > Cardinality(lmro) THEN right
        ELSE left

\* _find_lowest_vector
_find_lowest_vector(left, right) ==
    IF left = right THEN left
    ELSE IF ~IsSubclass(left, "Vector2") THEN right
    ELSE IF ~IsSubclass(right, "Vector2") THEN left
    ELSE _find_lowest_type(left, right)

\* ---- arithmetic ------------------------------------------------------
\* self is the receiver as a "vec" outcome: an instance of the heap, or an
\* intermediate result that was never stored.

\* Vector2.length
length(self) == Hypot(self.x, self.y)

\* Vector2.__add__
__add__(h, self, other) ==
    LET rtype == _find_lowest_vector(TypeOf(h, other), self.type)
        o == convert(h, "Vector2", other)
    IN  IF o.k = "raise" /\ o.exc = "ValueError" THEN NotImplemented
        ELSE IF o.k = "raise" THEN o
        ELSE SetCoordinates(rtype, PyFloat(self.x + o.x), PyFloat(self.y + o.y))

\* Vector2.__sub__
__sub__(h, self, other) ==
    LET rtype == _find_lowest_vector(TypeOf(h, other), self.type)
        o == convert(h, "Vector2", other)
    IN  IF o.k = "raise" /\ o.exc = "ValueError" THEN NotImplemented
        ELSE IF o.k = "raise" THEN o
        ELSE SetCoordinates(rtype, PyFloat(self.x - o.x), PyFloat(self.y - o.y))

\* dot adding the square of its own y where the product of the two y belongs.
dot_own_y(h, self, other) ==
    LET o == convert(h, "Vector2", other)
    IN  IF o.k = "raise" THEN o
        ELSE FloatResult(FMul(self.x, o.x) + FMul(self.y, self.y))

\* Vector2.dot
dot(h, self, other) ==
    LET o == convert(h, "Vector2", other)
    IN  IF o.k = "raise" THEN o
        ELSE FloatResult(FMul(self.x, o.x) + FMul(self.y, o.y))

\* scale_by building a Vector2 whatever the type of self.
scale_by_base(self, other) ==
    LET f == Float(other)
    IN  IF f.k = "raise" THEN f
        ELSE SetCoordinates("Vector2", PyFloat(FMul(self.x, f.n)), PyFloat(FMul(self.y, f.n)))

\* Vector2.scale_by
scale_by(self, other) ==
    LET f == Float(other)
    IN  IF f.k = "raise" THEN f
        ELSE SetCoordinates(self.type, PyFloat(FMul(self.x, f.n)), PyFloat(FMul(self.y, f.n)))

\* Vector2.__mul__
__mul__(h, self, other) ==
    IF other.k \in {"float", "int"} THEN scale_by(self, other)
    ELSE LET d == dot(h, self, other)
         IN  IF d.k = "raise" /\ d.exc \in {"TypeError", "ValueError"} THEN NotImplemented
             ELSE d

\* Vector2.__rmul__
__rmul__(h, self, other) == __mul__(h, self, other)

\* other * self, for a vector self.  A vector on the left answers with its
\* own __mul__; no other left operand here multiplies with a vector, so
\* Python turns to self.__rmul__(other), and to TypeError when that returns
\* NotImplemented.
times(h, other, self) ==
    IF other.k = "ref" THEN __mul__(h, Deref(h, other.id), PyRef(self.id))
    ELSE LET r == __rmul__(h, self, other)
         IN  IF r.k = "NotImplemented" THEN Raise("TypeError") ELSE r

\* Vector2.__neg__
__neg__(self) == scale_by(self, PyInt(0 - 1))

\* Vector2.__getitem__: an int is its own __index__().
__getitem__(self, item) ==
    IF item.k = "str"
    THEN IF item.keys = <<"x">> THEN FloatResult(self.x)
         ELSE IF item.keys = <<"y">> THEN FloatResult(self.y)
         ELSE Raise("KeyError")
    ELSE IF item.k = "int"
    THEN IF item.n = 0 THEN FloatResult(self.x)
         ELSE IF item.n = 1 THEN FloatResult(self.y)
         ELSE Raise("IndexError")
    ELSE Raise("TypeError")

\* Vector2.__iter__, run to its end: the values it yields.
__iter__(self) == PairResult(self.x, self.y)

\* __truediv__ returning the receiver when the divisor is zero.
truediv_guarded(self, other) ==
    LET f == Float(other)
    IN  IF f.k = "raise" THEN f
        ELSE IF f.n = 0 THEN self
        ELSE SetCoordinates(self.type, PyFloat(FDivide(self.x, f.n)),
                            PyFloat(FDivide(self.y, f.n)))

\* Vector2.__truediv__: Python's float division raises on a zero divisor.
__truediv__(self, other) ==
    LET f == Float(other)
    IN  IF f.k = "raise" THEN f
        ELSE IF f.n = 0 THEN Raise("ZeroDivisionError")
        ELSE SetCoordinates(self.type, PyFloat(FDivide(self.x, f.n)),
                            PyFloat(FDivide(self.y, f.n)))

\* Equality by identity, as without __eq__ (the dataclass has eq=False).
eq_by_identity(h, self, other) == BoolResult(other.k = "ref" /\ other.id = self.id)

\* Vector2.__eq__
__eq__(h, self, other) ==
    LET o == convert(h, "Vector2", other)
    IN  IF o.k = "raise" /\ o.exc \in {"TypeError", "ValueError"} THEN NotImplemented
        ELSE IF o.k = "raise" THEN o
        ELSE BoolResult(self.x = o.x /\ self.y = o.y)

\* ---- scaling ---------------------------------------------------------

\* Vector2.scale_to; length * self is float.__mul__ giving way to __rmul__.
scale_to(h, self, len) ==
    LET f == Float(len)
    IN  IF f.k = "raise" THEN f
        ELSE IF f.n < 0 THEN Raise("ValueError")
        ELSE IF f.n = 0 THEN SetCoordinates(self.type, PyInt(0), PyInt(0))
        ELSE LET scaled == __rmul__(h, self, PyFloat(f.n))
             IN  IF scaled.k # "vec" THEN scaled
                 ELSE __truediv__(scaled, PyFloat(length(self)))

\* Vector2.normalize (scale is an alias of scale_to, line 432)
normalize(h, self) == scale_to(h, self, PyInt(1))

\* truncate comparing with < instead of <=.
truncate_strict(h, self, max_length) ==
    LET f == Float(max_length)
    IN  IF f.k = "raise" THEN f
        ELSE IF length(self) < f.n THEN self
        ELSE scale_to(h, self, PyFloat(f.n))

\* truncate with its comparison the wrong way round.
truncate_reversed(h, self, max_length) ==
    LET f == Float(max_length)
    IN  IF f.k = "raise" THEN f
        ELSE IF length(self) >= f.n THEN self
        ELSE scale_to(h, self, PyFloat(f.n))

\* Vector2.truncate
truncate(h, self, max_length) ==
    LET f == Float(max_length)
    IN  IF f.k = "raise" THEN f
        ELSE IF length(self) <= f.n THEN self
        ELSE scale_to(h, self, PyFloat(f.n))

\* ---- intermediate results --------------------------------------------

\* The heap while the vector v, a result not stored yet, is an operand.
With(h, v) == IF v.id = 0 THEN Append(h, [type |-> v.type, x |-> v.x, y |-> v.y]) ELSE h

\* The reference to v in With(h, v).
Ref(h, v) == IF v.id = 0 THEN PyRef(Len(h) + 1) ELSE PyRef(v.id)

\* ---- closeness and reflection ---------------------------------------

Max(a, b) == IF a >= b THEN a ELSE b

\* Vector2.isclose, with no rel_to.  A tolerance of 1e-09, the default, is
\* less than half a unit: 0.
isclose(h, self, other, abs_tol, rel_tol) ==
    LET fa == Float(abs_tol)
        fr == Float(rel_tol)
        o == convert(h, "Vector2", other)
        rel_length == Max(length(self), length(o))
        diff == __sub__(With(h, o), self, Ref(h, o))
    IN  IF fa.k = "raise" THEN fa
        ELSE IF fr.k = "raise" THEN fr
        ELSE IF fa.n < 0 \/ fr.n < 0 THEN Raise("ValueError")
        ELSE IF o.k = "raise" THEN o
        ELSE BoolResult(length(diff) <= FMul(fr.n, rel_length) \/ length(diff) <= fa.n)

\* Vector2.reflect: math.isclose(length, 1) is length = 1 at this precision;
\* 2 * (self * normal) * normal is float.__mul__ giving way to __rmul__.
reflect(h, self, surface_normal) ==
    LET o == convert(h, "Vector2", surface_normal)
        d == __mul__(With(h, o), self, Ref(h, o))
        scaled == times(With(h, o), PyFloat(2 * d.n), o)
    IN  IF o.k = "raise" THEN o
        ELSE IF length(o) # Scale THEN Raise("ValueError")
        ELSE __sub__(With(h, scaled), self, Ref(h, scaled))

\* ---- angles ----------------------------------------------------------
\* Angles are floats counting degrees.  The vectors met here point along an
\* axis or a diagonal, and the angles of rotation are quarter turns.

Abs(a) == IF a < 0 THEN 0 - a ELSE a

\* math.sqrt
Sqrt(a) == RoundSqrt(a * Scale)

\* math.copysign
copysign(a, b) == IF b < 0 THEN 0 - Abs(a) ELSE Abs(a)

\* math.atan2(a, b), in degrees.  b is a negated coordinate wherever the
\* code calls atan2, so a zero b is -0.0, and atan2(0.0, -0.0) is pi.
atan2(a, b) ==
    CASE a = 0 /\ b > 0 -> 0
      [] a = 0 /\ b <= 0 -> 180 * Scale
      [] a > 0 /\ b = 0 -> 90 * Scale
      [] a < 0 /\ b = 0 -> 0 - 90 * Scale
      [] a > 0 /\ b = a -> 45 * Scale
      [] a > 0 /\ b = 0 - a -> 135 * Scale
      [] a < 0 /\ b = 0 - a -> 0 - 45 * Scale
      [] a < 0 /\ b = a -> 0 - 135 * Scale

\* angle normalizing with < where the code has <=.
angle_open(h, self, other) ==
    LET o == convert(h, "Vector2", other)
        rv == atan2(o.x, 0 - o.y) - atan2(self.x, 0 - self.y)
    IN  IF o.k = "raise" THEN o
        ELSE IF rv < 0 - 180 * Scale THEN FloatResult(rv + 360 * Scale)
        ELSE IF rv > 180 * Scale THEN FloatResult(rv - 360 * Scale)
        ELSE FloatResult(rv)

\* Vector2.angle
angle(h, self, other) ==
    LET o == convert(h, "Vector2", other)
        rv == atan2(o.x, 0 - o.y) - atan2(self.x, 0 - self.y)
    IN  IF o.k = "raise" THEN o
        ELSE IF rv <= 0 - 180 * Scale THEN FloatResult(rv + 360 * Scale)
        ELSE IF rv > 180 * Scale THEN FloatResult(rv - 360 * Scale)
        ELSE FloatResult(rv)

\* cos(radians(a)) of a quarter turn a.  radians(90) is not pi / 2 but the
\* float next to it, and its cosine is not 0 but a float of the smallest
\* size: one unit here.
cos(a) ==
    CASE a = 0 -> Scale
      [] a = 90 * Scale -> 1
      [] a = 0 - 90 * Scale -> 1
      [] a = 180 * Scale -> 0 - Scale

\* sin(radians(a)) of a quarter turn a; sin(radians(180)) is not 0 either.
sin(a) ==
    CASE a = 0 -> 0
      [] a = 90 * Scale -> Scale
      [] a = 0 - 90 * Scale -> 0 - Scale
      [] a = 180 * Scale -> 1

\* _trig as cos and sin give it, not stabilized.
_trig_raw(a) ==
    IF a.k \notin {"int", "float"} THEN Raise("TypeError")
    ELSE PairResult(cos(Float(a).n), sin(Float(a).n))

\* Vector2._trig: radians() takes a real number and nothing else.
_trig(a) ==
    IF a.k \notin {"int", "float"} THEN Raise("TypeError")
    ELSE LET r_cos == cos(Float(a).n)
             r_sin == sin(Float(a).n)
         IN  IF Abs(r_cos) > Abs(r_sin)
             THEN PairResult(r_cos, copysign(Sqrt(Scale - FMul(r_cos, r_cos)), r_sin))
             ELSE PairResult(copysign(Sqrt(Scale - FMul(r_sin, r_sin)), r_cos), r_sin)

\* Vector2.rotate
rotate(self, a) ==
    LET t == _trig(a)
    IN  IF t.k = "raise" THEN t
        ELSE SetCoordinates(self.type,
                            PyFloat(FMul(self.x, t.x) - FMul(self.y, t.y)),
                            PyFloat(FMul(self.x, t.y) + FMul(self.y, t.x)))

\* ---- copying ---------------------------------------------------------

\* __setattr__ of a dataclass that is not frozen: the attribute is assigned.
setattr_unfrozen(self, name, value) ==
    IF name = "x" THEN [self EXCEPT !.x = value]
    ELSE IF name = "y" THEN [self EXCEPT !.y = value]
    ELSE self

\* The class is a frozen dataclass: its __setattr__ refuses every field, and
\* every attribute of an instance of Vector2 itself.  The outcome is the
\* instance after the assignment.
__setattr__(self, name, value) ==
    IF self.type = "Vector2" \/ name \in {"x", "y"} THEN Raise("FrozenInstanceError")
    ELSE self

\* Vector2.update, which is dataclasses.replace: the fields that changes
\* does not name are taken from self, and type(self)(**changes) is built.
update(h, self, kwk, kwv) ==
    LET missing == SelectSeq(<<"x", "y">>, LAMBDA f : f \notin Range(kwk))
        taken == [i \in DOMAIN missing |->
                    IF missing[i] = "x" THEN PyFloat(self.x) ELSE PyFloat(self.y)]
    IN  construct(h, self.type, <<>>, kwk \o missing, kwv \o taken)

\* The class declares __slots__ and neither __reduce__ nor __setstate__:
\* copy, deepcopy and pickle.loads make a blank instance with cls.__new__ and
\* assign each slot of the saved state with setattr.
reconstruct(self) ==
    LET blank == Vec(0, self.type, 0, 0, TRUE)
        sx == __setattr__(blank, "x", self.x)
        sy == __setattr__(blank, "y", self.y)
    IN  IF sx.k = "raise" THEN sx
        ELSE IF sy.k = "raise" THEN sy
        ELSE Vec(0, self.type, self.x, self.y, TRUE)


\* ---- inputs ----------------------------------------------------------

\* Values offered as coordinates.
Scalars == {PyInt(0), PyInt(3), PyNumStr(3), PyBadStr, PyNone}

\* Values offered as lengths and divisors.
ScalarArgs == {PyInt(0 - 1), PyInt(0), PyInt(1), PyInt(3), PyInt(5), PyNone, PyBadStr}

\* Pairs of positional constructor arguments.
Pairs ==
    {<<a, PyInt(0)>> : a \in Scalars} \cup {<<PyInt(3), b>> : b \in Scalars}

\* Values offered as angles of rotation.
Angles == {PyInt(0 - 90), PyInt(0), PyInt(90), PyInt(180), PyNone, PyBadStr}

\* Coordinates of the vectors along the axes and the diagonals.
Signs == {0 - 1, 0, 1}

Ids(h) == 1..Len(h)

\* The vector-like forms of the instance i: tuple(v), list(v), v.asdict(), v.
VectorLikes(h, i) ==
    {PyTuple(<<PyFloat(h[i].x), PyFloat(h[i].y)>>),
     PyList(<<PyFloat(h[i].x), PyFloat(h[i].y)>>),
     PyDict(<<"x", "y">>, <<PyFloat(h[i].x), PyFloat(h[i].y)>>),
     PyRef(i)}

\* Values that are not vector-like, or whose elements are not numbers.
NotVectorLikes ==
    {PyTuple(<<PyInt(0), PyInt(3), PyInt(3)>>),
     PyTuple(<<PyBadStr, PyBadStr>>),
     PyList(<<PyInt(3), PyNone>>),
     PyDict(<<"a", "b">>, <<PyInt(0), PyInt(3)>>),
     PyDict(<<"x">>, <<PyInt(3)>>),
     PyDict(<<"x", "y", "z">>, <<PyInt(0), PyInt(3), PyInt(3)>>),
     PyNone,
     PyInt(3)}

\* Values offered where a vector-like is expected.
Operands(h) ==
    UNION {VectorLikes(h, i) : i \in Ids(h)}
        \cup {PyTuple(<<PyInt(3), PyInt(0)>>)}
        \cup NotVectorLikes

\* Keyword arguments: names and values.
Keywords ==
    {[kwk |-> ks, kwv |-> [i \in DOMAIN ks |-> IF i = 1 THEN s ELSE PyInt(0)]] :
        ks \in {<<"x", "y">>, <<"x">>, <<"x", "y", "z">>, <<"a", "b">>},
        s \in {PyInt(3), PyBadStr}}

\* The constructor calls offered: positional and keyword arguments.
CtorCalls(h) ==
    {[pos |-> p, kwk |-> <<>>, kwv |-> <<>>] : p \in Pairs}
        \cup {[pos |-> <<v>>, kwk |-> <<>>, kwv |-> <<>>] : v \in Operands(h)}
        \cup {[pos |-> <<>>, kwk |-> <<>>, kwv |-> <<>>],
              [pos |-> <<PyInt(0), PyInt(3), PyInt(3)>>, kwk |-> <<>>, kwv |-> <<>>],
              [pos |-> <<PyInt(3)>>, kwk |-> <<"y">>, kwv |-> <<PyInt(0)>>],
              [pos |-> <<PyInt(3)>>, kwk |-> <<"x", "y">>, kwv |-> <<PyInt(3), PyInt(0)>>]}
        \cup {[pos |-> <<>>, kwk |-> k.kwk, kwv |-> k.kwv] : k \in Keywords}

\* Pairs of numbers as positional constructor arguments.
NumberPairs == {<<PyInt(3), PyInt(0)>>, <<PyInt(3), PyInt(3)>>}

\* Values offered as surface normals: the operands and a unit vector.
Normals(h) == Operands(h) \cup {PyTuple(<<PyInt(0), PyInt(1)>>)}

\* Values offered as tolerances; the first is the default.
Tolerances == {PyFloat(0), PyInt(3), PyInt(0 - 1)}

\* Values offered as indices.
Items == {PyInt(0), PyInt(1), PyInt(2), PyStr("x"), PyStr("y"), PyBadStr, PyNone}

\* Changes offered to update: names and values.
Changes ==
    {[kwk |-> <<>>, kwv |-> <<>>],
     [kwk |-> <<"x">>, kwv |-> <<PyInt(0)>>],
     [kwk |-> <<"y">>, kwv |-> <<PyInt(3)>>],
     [kwk |-> <<"x">>, kwv |-> <<PyBadStr>>],
     [kwk |-> <<"z">>, kwv |-> <<PyInt(3)>>]}

\* Attribute names offered to an assignment.
Names == {"x", "y", "z"}

\* ---- the state machine -----------------------------------------------

\* The heap after a call with outcome r: a new instance is allocated.
Allocate(h, r) ==
    IF r.k = "vec" /\ r.new THEN Append(h, [type |-> r.type, x |-> r.x, y |-> r.y]) ELSE h

\* The outcome as the caller sees it: a new instance has its place in the heap.
Returned(h, r) ==
    IF r.k = "vec" /\ r.new THEN [r EXCEPT !.id = Len(h) + 1] ELSE r

Call(name, cls, self, arg, pos, kwk, kwv) ==
    [name |-> name, cls |-> cls, self |-> self, arg |-> arg, pos |-> pos, kwk |-> kwk, kwv |-> kwv]

NoCall == Call("none", "", 0, PyNone, <<>>, <<>>, <<>>)

\* The call `call` returns r to a caller that made no call yet or has taken
\* the result of its last one.  A caller that keeps the instance it gets
\* holds it from then on, while the heap has room; a new instance nobody
\* holds is gone after the call.
Do(call, r, keep) ==
    /\ op = NoCall
    /\ heap' = IF keep /\ Len(heap) < MaxHeap THEN Allocate(heap, r) ELSE heap
    /\ op' = call
    /\ res' = IF keep /\ Len(heap) < MaxHeap THEN Returned(heap, r) ELSE r

Init ==
    /\ heap = <<>>
    /\ op = NoCall
    /\ res = NoResult

\* cls(*args, **kwargs)
Construct ==
    \E cls \in VectorTypes, a \in CtorCalls(heap) :
        Do(Call("ctor", cls, 0, PyNone, a.pos, a.kwk, a.kwv),
           construct(heap, cls, a.pos, a.kwk, a.kwv), TRUE)

\* cls.convert(value)
Convert ==
    \E cls \in VectorTypes, v \in Operands(heap) :
        Do(Call("convert", cls, 0, v, <<>>, <<>>, <<>>), convert(heap, cls, v), FALSE)

\* self + other
Add ==
    \E i \in Ids(heap), v \in Operands(heap) :
        Do(Call("add", "", i, v, <<>>, <<>>, <<>>), __add__(heap, Deref(heap, i), v), FALSE)

\* self - other
Sub ==
    \E i \in Ids(heap), v \in Operands(heap) :
        Do(Call("sub", "", i, v, <<>>, <<>>, <<>>), __sub__(heap, Deref(heap, i), v), FALSE)

\* self.dot(other)
Dot ==
    \E i \in Ids(heap), v \in Operands(heap) :
        Do(Call("dot", "", i, v, <<>>, <<>>, <<>>), dot(heap, Deref(heap, i), v), FALSE)

\* self * other
Mul ==
    \E i \in Ids(heap), v \in Operands(heap) \cup ScalarArgs :
        Do(Call("mul", "", i, v, <<>>, <<>>, <<>>), __mul__(heap, Deref(heap, i), v), FALSE)

\* other * self
RMul ==
    \E i \in Ids(heap), v \in Operands(heap) \cup ScalarArgs :
        Do(Call("rmul", "", i, v, <<>>, <<>>, <<>>), times(heap, v, Deref(heap, i)), FALSE)

\* self.scale_by(other)
ScaleBy ==
    \E i \in Ids(heap), s \in ScalarArgs :
        Do(Call("scale_by", "", i, s, <<>>, <<>>, <<>>), scale_by(Deref(heap, i), s), FALSE)

\* -self
Neg ==
    \E i \in Ids(heap) :
        Do(Call("neg", "", i, PyNone, <<>>, <<>>, <<>>), __neg__(Deref(heap, i)), FALSE)

\* self[item]
GetItem ==
    \E i \in Ids(heap), item \in Items :
        Do(Call("getitem", "", i, item, <<>>, <<>>, <<>>), __getitem__(Deref(heap, i), item), FALSE)

\* tuple(self)
Iter ==
    \E i \in Ids(heap) :
        Do(Call("iter", "", i, PyNone, <<>>, <<>>, <<>>), __iter__(Deref(heap, i)), FALSE)

\* self / other
TrueDiv ==
    \E i \in Ids(heap), s \in ScalarArgs :
        Do(Call("truediv", "", i, s, <<>>, <<>>, <<>>), __truediv__(Deref(heap, i), s), FALSE)

\* self == other
Eq ==
    \E i \in Ids(heap), v \in Operands(heap) :
        Do(Call("eq", "", i, v, <<>>, <<>>, <<>>), __eq__(heap, Deref(heap, i), v), FALSE)

\* self.scale_to(length)
ScaleTo ==
    \E i \in Ids(heap), s \in ScalarArgs :
        Do(Call("scale_to", "", i, s, <<>>, <<>>, <<>>), scale_to(heap, Deref(heap, i), s), FALSE)

\* self.normalize()
Normalize ==
    \E i \in Ids(heap) :
        Do(Call("normalize", "", i, PyNone, <<>>, <<>>, <<>>), normalize(heap, Deref(heap, i)), FALSE)

\* self.truncate(max_length)
Truncate ==
    \E i \in Ids(heap), s \in ScalarArgs :
        Do(Call("truncate", "", i, s, <<>>, <<>>, <<>>), truncate(heap, Deref(heap, i), s), FALSE)

\* self.isclose(other, abs_tol=tol)
IsClose ==
    \E i \in Ids(heap), v \in Operands(heap), tol \in Tolerances :
        Do(Call("isclose", "", i, v, <<tol>>, <<>>, <<>>),
           isclose(heap, Deref(heap, i), v, tol, PyFloat(0)), FALSE)

\* self.reflect(surface_normal)
Reflect ==
    \E i \in Ids(heap), v \in Normals(heap) :
        Do(Call("reflect", "", i, v, <<>>, <<>>, <<>>), reflect(heap, Deref(heap, i), v), FALSE)

\* self.update(**changes)
Update ==
    \E i \in Ids(heap), c \in Changes :
        Do(Call("update", "", i, PyNone, <<>>, c.kwk, c.kwv),
           update(heap, Deref(heap, i), c.kwk, c.kwv), FALSE)

\* self.name = value: the instance is as __setattr__ leaves it, and the
\* statement has no value.
SetAttr ==
    \E i \in Ids(heap), name \in Names :
        LET r == __setattr__(Deref(heap, i), name, 5 * Scale)
        IN  /\ op = NoCall
            /\ heap' = IF r.k = "vec"
                        THEN [heap EXCEPT ![i] = [type |-> r.type, x |-> r.x, y |-> r.y]]
                        ELSE heap
            /\ op' = Call("setattr", "", i, PyInt(5), <<>>, <<name>>, <<>>)
            /\ res' = IF r.k = "vec" THEN NoResult ELSE r

\* self.angle(other)
Angle ==
    \E i \in Ids(heap), v \in Operands(heap) :
        Do(Call("angle", "", i, v, <<>>, <<>>, <<>>), angle(heap, Deref(heap, i), v), FALSE)

\* self.rotate(angle)
Rotate ==
    \E i \in Ids(heap), a \in Angles :
        Do(Call("rotate", "", i, a, <<>>, <<>>, <<>>), rotate(Deref(heap, i), a), FALSE)

\* Vector2._trig(angle)
Trig ==
    \E a \in Angles :
        Do(Call("_trig", "Vector2", 0, a, <<>>, <<>>, <<>>), _trig(a), FALSE)

\* cls(x, y)
ConstructPair ==
    \E cls \in VectorTypes, p \in NumberPairs :
        Do(Call("ctor", cls, 0, PyNone, p, <<>>, <<>>), construct(heap, cls, p, <<>>, <<>>), TRUE)

\* Vector2(x, y) with coordinates of either sign
ConstructSigned ==
    \E x \in Signs, y \in Signs :
        Do(Call("ctor", "Vector2", 0, PyNone, <<PyInt(x), PyInt(y)>>, <<>>, <<>>),
           construct(heap, "Vector2", <<PyInt(x), PyInt(y)>>, <<>>, <<>>), TRUE)

\* pickle.loads(pickle.dumps(self))
Pickle ==
    \E i \in Ids(heap) :
        Do(Call("pickle", "", i, PyNone, <<>>, <<>>, <<>>), reconstruct(Deref(heap, i)), FALSE)

\* copy.copy(self)
Copy ==
    \E i \in Ids(heap) :
        Do(Call("copy", "", i, PyNone, <<>>, <<>>, <<>>), reconstruct(Deref(heap, i)), FALSE)

\* copy.deepcopy(self)
DeepCopy ==
    \E i \in Ids(heap) :
        Do(Call("deepcopy", "", i, PyNone, <<>>, <<>>, <<>>), reconstruct(Deref(heap, i)), FALSE)

\* The caller takes the result of its call.
Return ==
    /\ op # NoCall
    /\ op' = NoCall
    /\ res' = NoResult
    /\ UNCHANGED heap

Next ==
    \/ Construct
    \/ Convert
    \/ Add
    \/ Sub
    \/ TrueDiv
    \/ Eq
    \/ ScaleTo
    \/ Normalize
    \/ Truncate
    \/ Pickle
    \/ Copy
    \/ DeepCopy
    \/ Return

Spec == Init /\ [][Next]_vars

\* Every public operation on vectors of every type, built from two numbers.
NextOps ==
    \/ ConstructPair
    \/ Convert
    \/ Add
    \/ Sub
    \/ Dot
    \/ Mul
    \/ RMul
    \/ ScaleBy
    \/ Neg
    \/ GetItem
    \/ Iter
    \/ TrueDiv
    \/ Eq
    \/ ScaleTo
    \/ Normalize
    \/ Truncate
    \/ IsClose
    \/ Reflect
    \/ Update
    \/ SetAttr
    \/ Angle
    \/ Rotate
    \/ Return

SpecOps == Init /\ [][NextOps]_vars

\* The vectors of every direction along an axis or a diagonal, and the zero
\* vector, under the operations on angles.
NextCompass ==
    \/ ConstructSigned
    \/ Trig
    \/ Rotate
    \/ Angle
    \/ Return

SpecCompass == Init /\ [][NextCompass]_vars

\* ---- claims ----------------------------------------------------------

\* The receiver of the last call.
Self == heap[op.self]

\* The last call's argument is a reference to an instance.
ArgIsVector == op.arg.k = "ref"

\* C1: T.convert(v), for a vector v whose concrete type is T, returns the
\* very instance v: convert never makes a new object of it.
ConvertIdentity ==
    (op.name = "convert" /\ ArgIsVector /\ heap[op.arg.id].type = op.cls)
        => (res.k = "vec" /\ res.id = op.arg.id /\ ~res.new)

ConvertIdentityWitness ==
    /\ op.name = "convert"
    /\ ArgIsVector
    /\ op.cls = "V1"
    /\ heap[op.arg.id].type = "V1"
    /\ res.k = "vec"
    /\ res.id = op.arg.id

\* C2: Vector2(v), for a vector v, is the instance v itself (no copy).
CtorNoCopy ==
    (op.name = "ctor" /\ op.cls = "Vector2" /\ Len(op.pos) = 1 /\ Len(op.kwk) = 0
        /\ op.pos[1].k = "ref")
        => (res.k = "vec" /\ res.id = op.pos[1].id /\ ~res.new)

\* C3, as claimed: T.convert(v), for a vector v whose concrete type is not
\* T, returns an instance whose concrete type is exactly T.
ConvertExactType ==
    (op.name = "convert" /\ ArgIsVector /\ heap[op.arg.id].type # op.cls)
        => (res.k = "vec" /\ res.type = op.cls)

\* C3, amended: T.convert(v), for a vector v whose concrete type is not T,
\* returns v itself when that type is a subtype of T, and otherwise a new
\* instance of exactly T with the coordinates of v.
ConvertOtherType ==
    (op.name = "convert" /\ ArgIsVector /\ heap[op.arg.id].type # op.cls)
        => IF op.cls \in Range(Mro(heap[op.arg.id].type))
           THEN res.k = "vec" /\ res.id = op.arg.id /\ ~res.new
                /\ res.type = heap[op.arg.id].type
           ELSE res.k = "vec" /\ res.new /\ res.type = op.cls
                /\ res.x = heap[op.arg.id].x /\ res.y = heap[op.arg.id].y

ConvertOtherTypeWitness ==
    /\ op.name = "convert"
    /\ ArgIsVector
    /\ op.cls = "V1"
    /\ heap[op.arg.id].type = "Vector2"
    /\ res.k = "vec"
    /\ res.new
    /\ res.type = "V1"
    /\ res.x # res.y

\* C4: a vector built from a vector-like form f of a vector v (the pair
\* (x, y), the mapping {x, y}, or v) has the coordinates of v, and v == f.
VectorLikeEquality ==
    /\ (op.name = "ctor" /\ Len(op.pos) = 1 /\ Len(op.kwk) = 0)
        => \A i \in Ids(heap) :
            op.pos[1] \in VectorLikes(heap, i)
                => (res.k = "vec" /\ res.x = heap[i].x /\ res.y = heap[i].y)
    /\ op.name = "eq"
        => \A i \in Ids(heap) :
            (op.arg \in VectorLikes(heap, i) /\ heap[i].x = Self.x /\ heap[i].y = Self.y)
                => (res.k = "bool" /\ res.n = 1)

VectorLikeEqualityWitness ==
    /\ op.name = "eq"
    /\ op.arg.k = "dict"
    /\ op.arg \in VectorLikes(heap, op.self)
    /\ Self.x # Self.y
    /\ res.k = "bool"
    /\ res.n = 1

\* C5: pickle.loads(pickle.dumps(v)), copy(v) and deepcopy(v) each return a
\* vector equal to v.
CopyRoundTrip ==
    op.name \in {"pickle", "copy", "deepcopy"}
        => (res.k = "vec" /\ res.x = Self.x /\ res.y = Self.y)

\* The type of the last call's argument is a vector type.
ArgType == TypeOf(heap, op.arg)

\* C6: the type of a + b and a - b is type(a) when b has the same type or
\* is no vector; of two vector types it is the one with the longer chain of
\* ancestors, and with chains of equal length it is type(b) whatever the
\* values, so a pair of types has one result type.  It is never Vector2
\* when an operand is of a subtype.
ResultType ==
    (op.name \in {"add", "sub"} /\ res.k = "vec")
        => /\ ArgType = Self.type => res.type = Self.type
           /\ ArgType \notin VectorTypes => res.type = Self.type
           /\ (ArgType \in VectorTypes /\ Len(Mro(Self.type)) > Len(Mro(ArgType)))
                => res.type = Self.type
           /\ (ArgType \in VectorTypes /\ Len(Mro(ArgType)) > Len(Mro(Self.type)))
                => res.type = ArgType
           /\ (ArgType \in VectorTypes /\ Len(Mro(ArgType)) = Len(Mro(Self.type)))
                => res.type = ArgType
           /\ (Self.type # "Vector2" \/ (ArgType \in VectorTypes /\ ArgType # "Vector2"))
                => res.type # "Vector2"

ResultTypeWitness ==
    /\ op.name = "add"
    /\ Self.type = "V2"
    /\ ArgType = "V11"
    /\ res.k = "vec"
    /\ res.type = "V11"

\* C7: when the right operand of + or - cannot be coerced, for whatever
\* reason, the operator returns NotImplemented and raises nothing.
UncoercibleNotImplemented ==
    (op.name \in {"add", "sub"} /\ convert(heap, "Vector2", op.arg).k = "raise")
        => res.k = "NotImplemented"

\* The call shapes the constructor takes: one or two positional arguments
\* and no keyword, or the keywords x and y and no positional argument.
ValidShape ==
    \/ Len(op.pos) \in {1, 2} /\ Len(op.kwk) = 0
    \/ Len(op.pos) = 0 /\ Range(op.kwk) = {"x", "y"}

\* C8: a constructor call of an invalid shape fails with TypeError.
InvalidShapeTypeError ==
    (op.name = "ctor" /\ ~ValidShape) => (res.k = "raise" /\ res.exc = "TypeError")

\* The receiver is the zero vector.
SelfIsZero == Self.x = 0 /\ Self.y = 0

\* The last call divides by zero: v / 0, or scale_to(length > 0) or
\* normalize() of the zero vector.
DividesByZero ==
    \/ op.name = "truediv" /\ op.arg = PyInt(0)
    \/ op.name = "scale_to" /\ op.arg.k = "int" /\ op.arg.n > 0 /\ SelfIsZero
    \/ op.name = "normalize" /\ SelfIsZero

\* C9, as claimed: a division by zero raises nothing and returns a vector.
DivisionByZeroReturns == DividesByZero => res.k = "vec"

\* C9, amended: a division by zero raises ZeroDivisionError, also inside
\* scale_to(length > 0) and normalize() of the zero vector; no vector is
\* returned.
DivisionByZeroRaises == DividesByZero => (res.k = "raise" /\ res.exc = "ZeroDivisionError")

DivisionByZeroRaisesWitness ==
    /\ op.name = "scale_to"
    /\ op.arg = PyInt(3)
    /\ SelfIsZero
    /\ res.k = "raise"
    /\ res.exc = "ZeroDivisionError"

\* C10: truncate(v, max_length) with |v| <= max_length returns v itself,
\* coordinates untouched, the zero vector with max_length 0 included.
TruncateInvariant ==
    (op.name = "truncate" /\ op.arg.k = "int" /\ Hypot(Self.x, Self.y) <= op.arg.n * Scale)
        => (res.k = "vec" /\ res.id = op.self /\ ~res.new
            /\ res.type = Self.type /\ res.x = Self.x /\ res.y = Self.y)

TruncateInvariantWitness ==
    /\ op.name = "truncate"
    /\ op.arg = PyInt(0)
    /\ SelfIsZero
    /\ res.k = "vec"
    /\ res.id = op.self

DotCommutes ==
    /\ (op.name = "mul" /\ ArgIsVector)
        => (res.k = "float" /\ res = __mul__(heap, Deref(heap, op.arg.id), PyRef(op.self)))
    /\ op.name = "rmul"
        => \A i \in Ids(heap) :
            op.arg \in VectorLikes(heap, i)
                => (res.k = "float" /\ res = __mul__(heap, Deref(heap, i), PyRef(op.self)))

DotCommutesWitness ==
    /\ op.name = "rmul"
    /\ op.arg.k = "tuple"
    /\ \E i \in Ids(heap) : op.arg \in VectorLikes(heap, i) /\ heap[i].y # Self.y
    /\ res.k = "float"
    /\ res.n = 9 * Scale

\* The last call's argument as a vector.
ArgVector == convert(heap, "Vector2", op.arg)

\* C13: a.angle(b) is in (-180, 180] for every pair of vectors, the zero
\* vector and every combination of signs included: the difference of the two
\* atan2 terms is in [-360, 360] and the one correction by 360 brings it into
\* the interval; -180 is never returned.
AngleInRange ==
    (op.name = "angle" /\ ArgVector.k = "vec")
        => /\ res.k = "float"
           /\ res.n > 0 - 180 * Scale
           /\ res.n <= 180 * Scale
           /\ atan2(ArgVector.x, 0 - ArgVector.y) - atan2(Self.x, 0 - Self.y) >= 0 - 360 * Scale
           /\ atan2(ArgVector.x, 0 - ArgVector.y) - atan2(Self.x, 0 - Self.y) <= 360 * Scale

AngleInRangeWitness ==
    /\ op.name = "angle"
    /\ ArgIsVector
    /\ Self.x > 0
    /\ Self.y > 0
    /\ ArgVector.x < 0
    /\ ArgVector.y < 0
    /\ res.k = "float"
    /\ res.n = 180 * Scale

\* The angles the tests rotate by.
QuarterTurns == {0 - 90, 0, 90, 180}

\* C14: rotations by -90, 0, 90 and 180 degrees are exact: _trig returns
\* (0, -1), (1, 0), (0, 1) and (-1, 0); v.rotate(a) is (y, -x), (x, y),
\* (-y, x) and (-x, -y) for v = (x, y); and v.angle(v.rotate(a)) is a, for
\* v = (1, 1).
ExactQuarterTurns ==
    /\ (op.name = "_trig" /\ op.arg.k = "int")
        => /\ op.arg.n = 0 - 90 => res = PairResult(0, 0 - Scale)
           /\ op.arg.n = 0 => res = PairResult(Scale, 0)
           /\ op.arg.n = 90 => res = PairResult(0, Scale)
           /\ op.arg.n = 180 => res = PairResult(0 - Scale, 0)
    /\ (op.name = "rotate" /\ op.arg.k = "int")
        => /\ res.k = "vec"
           /\ op.arg.n = 0 - 90 => (res.x = Self.y /\ res.y = 0 - Self.x)
           /\ op.arg.n = 0 => (res.x = Self.x /\ res.y = Self.y)
           /\ op.arg.n = 90 => (res.x = 0 - Self.y /\ res.y = Self.x)
           /\ op.arg.n = 180 => (res.x = 0 - Self.x /\ res.y = 0 - Self.y)
    /\ (op.name = "angle" /\ Self.x = Scale /\ Self.y = Scale /\ ArgVector.k = "vec")
        => \A a \in QuarterTurns :
            LET image == rotate(Deref(heap, op.self), PyInt(a))
            IN  (ArgVector.x = image.x /\ ArgVector.y = image.y)
                    => (res.k = "float" /\ res.n = a * Scale)

ExactQuarterTurnsWitness ==
    /\ op.name = "rotate"
    /\ op.arg = PyInt(90)
    /\ Self.x = Scale
    /\ Self.y = Scale
    /\ res.k = "vec"
    /\ res.x = 0 - Scale
    /\ res.y = Scale

\* C16: a vector never changes once it is built: whatever operation is
\* called, and whether it returns or fails, every vector alive before it is
\* alive after it with the type and the coordinates it had; and an
\* assignment to x or to y of an instance is refused.
Immutable ==
    [][/\ \A i \in Ids(heap) : i \in Ids(heap') /\ heap'[i] = heap[i]
       /\ (op'.name = "setattr" /\ op'.kwk \in {<<"x">>, <<"y">>})
            => (res'.k = "raise" /\ res'.exc = "FrozenInstanceError")]_vars

ImmutableWitness ==
    /\ op.name = "setattr"
    /\ op.kwk = <<"x">>
    /\ Len(heap) = 2
    /\ Self.type = "V1"
    /\ Self.x = 3 * Scale
    /\ res.k = "raise"
    /\ res.exc = "FrozenInstanceError"

\* The last call takes a number, or nothing, besides its receiver.
ScalarCall ==
    \/ op.name \in {"scale_by", "truediv", "neg", "rotate", "scale_to", "normalize", "truncate"}
    \/ op.name \in {"mul", "rmul"} /\ op.arg.k \in {"int", "float"}

\* C17: scale_by, v * k, k * v, v / k, -v, rotate, scale_to, normalize and
\* truncate return, when they return a vector, an instance of exactly the
\* type of their receiver.
ReceiverType == (ScalarCall /\ res.k = "vec") => res.type = Self.type

ReceiverTypeWitness ==
    /\ op.name = "rmul"
    /\ op.arg = PyInt(3)
    /\ Self.type = "V11"
    /\ res.k = "vec"
    /\ res.new
    /\ res.type = "V11"
    /\ res.x = 9 * Scale

====
